---- MODULE Spec2Model ----
(***************************************************************************)
(* Model of mongodb_json_converter.py.                                     *)
(*                                                                         *)
(* A text is a sequence of one-character strings.  fix_mongodb_objects is  *)
(* modelled character by character: the regular expression search of       *)
(* detect_mongodb_object, and the re.sub call of replace_mongodb_object,   *)
(* including the way re.sub reads its second argument as a replacement     *)
(* template.                                                               *)
(***************************************************************************)
EXTENDS Integers, Sequences, FiniteSets, TLC

VARIABLES
    pc,              \* position of the running function
    line,            \* argument of fix_mongodb_objects
    mongodb_object,  \* result of RE_MONGODB_OBJECT.search(line)
    result,          \* outcome of fix_mongodb_objects: a string or an exception
    pass,            \* 1: first application, 2: application to the first output
    first_line,      \* the argument of the first application
    first_result,    \* the outcome of the first application
    src_text,        \* content of the file at path
    out_text,        \* content of the file at output_path
    out_before,      \* content of the file at output_path before the call
    opened,          \* output_path has been opened for writing
    lines,           \* fp.readlines()
    lines_fixed,     \* the lines mapped so far
    written,         \* number of fp_write.write calls that returned
    exc,             \* the exception that left the function and its origin
    json_result,     \* json.load(fp_fixed)
    row,             \* the entries of the row evaluated so far
    data             \* the value read_udpated_json_file returns

lineVars == <<line, mongodb_object, result, pass, first_line, first_result>>

fileVars == <<src_text, out_text, out_before, opened, lines, lines_fixed,
              written, exc, json_result, row, data>>

vars == <<pc, lineVars, fileVars>>

----------------------------------------------------------------------------
(* Characters *)

Upper == {"A","B","C","D","E","F","G","H","I","J","K","L","M",
          "N","O","P","Q","R","S","T","U","V","W","X","Y","Z"}

Lower == {"a","b","c","d","e","f","g","h","i","j","k","l","m",
          "n","o","p","q","r","s","t","u","v","w","x","y","z"}

Letter == Upper \cup Lower

DIGITS == {"0","1","2","3","4","5","6","7","8","9"}

OCTDIGITS == {"0","1","2","3","4","5","6","7"}

DigitVal(c) ==
    CASE c = "0" -> 0 [] c = "1" -> 1 [] c = "2" -> 2 [] c = "3" -> 3
      [] c = "4" -> 4 [] c = "5" -> 5 [] c = "6" -> 6 [] c = "7" -> 7
      [] c = "8" -> 8 [] c = "9" -> 9

\* The printable ASCII characters, code 32 first (the grave accent, which
\* a TLA+ string cannot hold, is written "#96").
Printable ==
    <<" ","!","\"","#","$","%","&","'","(",")","*","+",",","-",".","/",
      "0","1","2","3","4","5","6","7","8","9",":",";","<","=",">","?",
      "@","A","B","C","D","E","F","G","H","I","J","K","L","M","N","O",
      "P","Q","R","S","T","U","V","W","X","Y","Z","[","\\","]","^","_",
      "#96","a","b","c","d","e","f","g","h","i","j","k","l","m","n","o",
      "p","q","r","s","t","u","v","w","x","y","z","{","|","}","~">>

\* chr(n): a character outside printable ASCII other than newline and tab
\* is written "#n".
Chr(n) ==
    IF n >= 32 /\ n <= 126 THEN Printable[n - 31]
    ELSE IF n = 10 THEN "\n"
    ELSE IF n = 9 THEN "\t"
    ELSE "#" \o ToString(n)

Min(S) == CHOOSE x \in S : \A y \in S : x <= y

Max(S) == CHOOSE x \in S : \A y \in S : x >= y

----------------------------------------------------------------------------
(* Outcomes of a call: a returned value or a raised exception *)

Ok(v) == [ok |-> TRUE, val |-> v, err |-> "none"]

Raise(e) == [ok |-> FALSE, val |-> <<>>, err |-> e]

NotCalled == [ok |-> FALSE, val |-> <<>>, err |-> "not called"]

\* r, if it is an exception; else the value of r with pre put before it
Prepend(pre, r) == IF r.ok THEN Ok(pre \o r.val) ELSE r

----------------------------------------------------------------------------
(* RE_MONGODB_OBJECT.search *)

\* [a-zA-Z]+ is greedy and must be followed by "(", which is not a letter:
\* the run of letters ends at the first following non-letter.
LetterRunEnd(s, i) ==
    LET stops == {j \in i..Len(s) : s[j] \notin Letter}
    IN  IF stops = {} THEN Len(s) + 1 ELSE Min(stops)

\* as ValueEnds, had "." matched the newline too (re.DOTALL)
ValueEnds_DotAll(s, j) == {k \in (j + 1)..Len(s) : s[k] = ")"}

\* positions of a ")" that \((?P<value>.*)\) can end at when "(" is at j:
\* "." matches any character except a newline
ValueEnds(s, j) ==
    {k \in (j + 1)..Len(s) :
        s[k] = ")" /\ \A m \in (j + 1)..(k - 1) : s[m] # "\n"}

\* as GreedyEnd, had the pattern been the lazy .*?
LazyEnd(S) == Min(S)

\* .* is greedy: the last candidate
GreedyEnd(S) == Max(S)

\* as MatchAt, had the pattern been [A-Z]{1}[a-zA-Z]*\( ... \)
MatchAt_OneLetter(s, i) ==
    LET j == LetterRunEnd(s, i + 1)
    IN  /\ s[i] \in Upper
        /\ j <= Len(s)
        /\ s[j] = "("
        /\ ValueEnds(s, j) # {}

\* [A-Z]{1}[a-zA-Z]+\( ... \) matches starting at position i
MatchAt(s, i) ==
    LET j == LetterRunEnd(s, i + 1)
    IN  /\ s[i] \in Upper
        /\ j > i + 1
        /\ j <= Len(s)
        /\ s[j] = "("
        /\ ValueEnds(s, j) # {}

\* as FirstStart, had the match with the rightmost start been taken
LastStart(S) == Max(S)

\* search returns the match with the leftmost start
FirstStart(S) == Min(S)

NoMatch == [found |-> FALSE, start |-> 0, open |-> 0, close |-> 0]

Search(s) ==
    LET starts == {i \in 1..Len(s) : MatchAt(s, i)}
    IN  IF starts = {} THEN NoMatch
        ELSE LET i == FirstStart(starts)
                 j == LetterRunEnd(s, i + 1)
             IN  [found |-> TRUE, start |-> i, open |-> j,
                  close |-> GreedyEnd(ValueEnds(s, j))]

\* groupdict(): the named groups of a match
Expression(s, m) == SubSeq(s, m.start, m.close)

Value(s, m) == SubSeq(s, m.open + 1, m.close - 1)

----------------------------------------------------------------------------
(* re.sub(pattern, repl, string): repl is a replacement template *)

\* \a \b \f \n \r \t \v \\ in a template
ESCAPES(c) ==
    CASE c = "a" -> Chr(7) [] c = "b" -> Chr(8) [] c = "f" -> Chr(12)
      [] c = "n" -> Chr(10) [] c = "r" -> Chr(13) [] c = "t" -> Chr(9)
      [] c = "v" -> Chr(11) [] c = "\\" -> "\\"

HasEscape(c) == c \in {"a", "b", "f", "n", "r", "t", "v", "\\"}

\* value of a string of digits in base b
RECURSIVE IntOf(_, _)
IntOf(ds, b) ==
    IF ds = <<>> THEN 0
    ELSE IntOf(SubSeq(ds, 1, Len(ds) - 1), b) * b + DigitVal(ds[Len(ds)])

IsIdentifier(name) ==
    /\ name # <<>>
    /\ name[1] \in Letter \cup {"_"}
    /\ \A k \in 1..Len(name) : name[k] \in Letter \cup DIGITS \cup {"_"}

\* \g<name> with the name between positions i and the first ">": the
\* pattern re.escape(expression) has no group but group 0, the whole match
GroupRef(t, i, whole) ==
    LET closes == {k \in i..Len(t) : t[k] = ">"}
    IN  IF closes = {} THEN Raise("re.error")
        ELSE LET k == Min(closes)
                 name == SubSeq(t, i, k - 1)
             IN  IF name = <<>> THEN Raise("re.error")
                 ELSE IF IsIdentifier(name) THEN Raise("IndexError")
                 ELSE IF \A n \in 1..Len(name) : name[n] \in DIGITS
                      THEN IF IntOf(name, 10) = 0
                           THEN [ok |-> TRUE, val |-> whole, err |-> "none",
                                 next |-> k + 1]
                           ELSE Raise("re.error")
                 ELSE Raise("re.error")

\* The template t read from position i; whole is the text of the match.
RECURSIVE parse_template(_, _, _)
parse_template(t, i, whole) ==
    IF i > Len(t) THEN Ok(<<>>)
    ELSE IF t[i] # "\\" THEN Prepend(<<t[i]>>, parse_template(t, i + 1, whole))
    ELSE IF i = Len(t) THEN Raise("re.error")
    ELSE LET c == t[i + 1]
             at(k) == IF k <= Len(t) THEN t[k] ELSE "end"
         IN
         IF c = "g" THEN
             IF at(i + 2) # "<" THEN Raise("re.error")
             ELSE LET g == GroupRef(t, i + 3, whole)
                  IN  IF g.ok
                      THEN Prepend(g.val, parse_template(t, g.next, whole))
                      ELSE g
         ELSE IF c = "0" THEN
             LET n == IF at(i + 2) \in OCTDIGITS
                      THEN IF at(i + 3) \in OCTDIGITS THEN 3 ELSE 2
                      ELSE 1
                 code == IntOf(SubSeq(t, i + 1, i + n), 8) % 256
             IN  Prepend(<<Chr(code)>>, parse_template(t, i + 1 + n, whole))
         ELSE IF c \in DIGITS THEN
             IF /\ at(i + 2) \in DIGITS
                /\ c \in OCTDIGITS
                /\ at(i + 2) \in OCTDIGITS
                /\ at(i + 3) \in OCTDIGITS
             THEN LET code == IntOf(SubSeq(t, i + 1, i + 3), 8)
                  IN  IF code > 255 THEN Raise("re.error")
                      ELSE Prepend(<<Chr(code)>>,
                                   parse_template(t, i + 4, whole))
             ELSE Raise("re.error")
         ELSE IF HasEscape(c) THEN
             Prepend(<<ESCAPES(c)>>, parse_template(t, i + 2, whole))
         ELSE IF c \in Letter THEN Raise("re.error")
         ELSE Prepend(<<"\\", c>>, parse_template(t, i + 2, whole))

OccursAt(s, i, e) ==
    /\ i + Len(e) - 1 <= Len(s)
    /\ SubSeq(s, i, i + Len(e) - 1) = e

\* every non-overlapping occurrence of e in s, from the left and from
\* position i on, replaced by new
RECURSIVE ReplaceAll(_, _, _, _)
ReplaceAll(s, i, e, new) ==
    LET found == {k \in i..Len(s) : OccursAt(s, k, e)}
    IN  IF found = {} THEN SubSeq(s, i, Len(s))
        ELSE SubSeq(s, i, Min(found) - 1) \o new
                 \o ReplaceAll(s, Min(found) + Len(e), e, new)

\* re.sub(re.escape(e), repl, s): the pattern is the literal text e
Sub(e, repl, s) ==
    LET tpl == parse_template(repl, 1, e)
    IN  IF tpl.ok THEN Ok(ReplaceAll(s, 1, e, tpl.val)) ELSE tpl

replace_mongodb_object(s, m) == Sub(Expression(s, m), Value(s, m), s)

detect_mongodb_object(s) ==
    LET m == Search(s)
    IN  IF m.found THEN replace_mongodb_object(s, m) ELSE Ok(s)

fix_mongodb_objects(s) == detect_mongodb_object(s)

----------------------------------------------------------------------------
(* Inputs of fix_mongodb_objects *)

MaxParts == 4

\* An upper-case letter, a letter with a template escape (\n), a letter
\* without one (\d), the parentheses, the backslash, a digit, a newline and
\* an identifier with its parenthesis.
Fragments ==
    { <<"A">>, <<"d">>, <<"n">>, <<"(">>, <<")">>, <<"\\">>, <<"1">>,
      <<"\n">>, <<"A", "d", "(">> }

RECURSIVE Concat(_)
Concat(parts) ==
    IF parts = <<>> THEN <<>> ELSE Head(parts) \o Concat(Tail(parts))

Generated ==
    UNION { {Concat(parts) : parts \in [1..n -> Fragments]} : n \in 0..MaxParts }

SampleLines ==
    { <<"A","d","(","A","(",")",")">>,
      <<"A","d","(","A","d","(","\n",")",")">>,
      <<"A","d","(",")",",","A","d","(",")">>,
      <<"A","d","(","\\","g","<","0",">",")">>,
      <<"A","d","(","\\","1","0","1","d","(",")",")">>,
      <<" ","\"","i","d","\"",":"," ","O","b","j","e","c","t","I","d","(","\"","x","\"",")",",","\n">>,
      <<"O","b","j","e","c","t","I","d","(","\"","a","\"",")",","," ","D","a","t","e","(","\"","b","\"",")">>,
      <<"D","e","c","i","m","a","l","1","2","8","(","\"","1","\"",")">>,
      <<"P","a","t","h","(","\"","C",":","\\","\\","d","\"",")","\n">>,
      <<"}",",","\n">> }

Lines == Generated \cup SampleLines

----------------------------------------------------------------------------
(* fix_mongodb_objects, step by step *)

InitLine ==
    /\ line \in Lines
    /\ first_line = line
    /\ pc = "call"
    /\ mongodb_object = NoMatch
    /\ result = NotCalled
    /\ first_result = NotCalled
    /\ pass = 1
    /\ src_text = <<>>
    /\ out_text = <<>>
    /\ out_before = <<>>
    /\ opened = FALSE
    /\ lines = <<>>
    /\ lines_fixed = <<>>
    /\ written = 0
    /\ exc = [kind |-> "none", at |-> "none"]
    /\ json_result = <<>>
    /\ row = <<>>
    /\ data = <<>>

\* mongodb_object = RE_MONGODB_OBJECT.search(line)
Detect ==
    /\ pc = "call"
    /\ mongodb_object' = Search(line)
    /\ pc' = "searched"
    /\ UNCHANGED <<line, result, pass, first_line, first_result>>
    /\ UNCHANGED fileVars

\* isinstance(mongodb_object, re.Match): return replace_mongodb_object(...)
Replace ==
    /\ pc = "searched"
    /\ mongodb_object.found
    /\ result' = replace_mongodb_object(line, mongodb_object)
    /\ pc' = IF result'.ok THEN "returned" ELSE "raised"
    /\ UNCHANGED <<line, mongodb_object, pass, first_line, first_result>>
    /\ UNCHANGED fileVars

\* return line
ReturnLine ==
    /\ pc = "searched"
    /\ ~mongodb_object.found
    /\ result' = Ok(line)
    /\ pc' = "returned"
    /\ UNCHANGED <<line, mongodb_object, pass, first_line, first_result>>
    /\ UNCHANGED fileVars

\* the caller applies the function to the string it returned
Reapply ==
    /\ pc = "returned"
    /\ pass = 1
    /\ line' = result.val
    /\ first_result' = result
    /\ pass' = 2
    /\ pc' = "call"
    /\ mongodb_object' = NoMatch
    /\ result' = NotCalled
    /\ UNCHANGED first_line
    /\ UNCHANGED fileVars

NextLine == Detect \/ Replace \/ ReturnLine \/ Reapply

SpecLine == InitLine /\ [][NextLine]_vars

----------------------------------------------------------------------------
(* The vocabulary of the properties of fix_mongodb_objects *)

\* s has no line terminator other than an optional final one
IsLine(s) == \A k \in 1..(Len(s) - 1) : s[k] # "\n"

Done == pc \in {"returned", "raised"}

\* positions where a constructor expression starts: an upper-case letter,
\* one or more letters, "(" and a later ")" on the same line
ConstructorStarts(s) ==
    {i \in 1..Len(s) :
        /\ s[i] \in Upper
        /\ \E j \in (i + 2)..Len(s) :
              /\ \A m \in (i + 1)..(j - 1) : s[m] \in Letter
              /\ s[j] = "("
              /\ \E k \in (j + 1)..Len(s) :
                    /\ s[k] = ")"
                    /\ \A m \in (j + 1)..(k - 1) : s[m] # "\n"}

HasConstructor(s) == ConstructorStarts(s) # {}

\* the leftmost identifier, the "(" that follows it, the last ")"
IdStart(s) == Min(ConstructorStarts(s))

IdOpen(s) == Min({j \in IdStart(s)..Len(s) : s[j] = "("})

LastClose(s) == Max({k \in 1..Len(s) : s[k] = ")"})

Before(s) == SubSeq(s, 1, IdStart(s) - 1)

Payload(s) == SubSeq(s, IdOpen(s) + 1, LastClose(s) - 1)

After(s) == SubSeq(s, LastClose(s) + 1, Len(s))

\* the ")" of the first expression's own pair of parentheses
OwnClose(s) == Min({k \in (IdOpen(s) + 1)..Len(s) : s[k] = ")"})

OwnPayload(s) == SubSeq(s, IdOpen(s) + 1, OwnClose(s) - 1)

Rest(s) == SubSeq(s, OwnClose(s) + 1, Len(s))

\* two independent constructor expressions: the first has no parenthesis
\* in its payload and a second one follows its ")"
TwoExpressions(s) ==
    /\ IsLine(s)
    /\ HasConstructor(s)
    /\ \A m \in 1..Len(OwnPayload(s)) : OwnPayload(s)[m] # "("
    /\ HasConstructor(Rest(s))

Occurrences(s, e) == {i \in 1..Len(s) : OccursAt(s, i, e)}

----------------------------------------------------------------------------
(* Properties of fix_mongodb_objects *)

\* C1: on a line with a constructor expression the call returns the text
\* before the expression, the payload character for character, and the
\* text after the expression.
C1_PayloadVerbatim ==
    (pass = 1 /\ Done /\ IsLine(line) /\ HasConstructor(line))
        => result = Ok(Before(line) \o Payload(line) \o After(line))

\* C2: a line without a constructor expression is returned exactly as it
\* is, and no exception is raised.
C2_NoMatchUnchanged ==
    (pass = 1 /\ Done /\ ~HasConstructor(line))
        => (pc = "returned" /\ result = Ok(line))

\* a single upper-case letter before "(" ... ")" was passed through
C2_Witness ==
    /\ pass = 1
    /\ pc = "returned"
    /\ ~HasConstructor(line)
    /\ result = Ok(line)
    /\ \E i \in 1..(Len(line) - 2) :
          /\ line[i] \in Upper
          /\ line[i + 1] = "("
          /\ \E k \in (i + 2)..Len(line) : line[k] = ")"

\* C4 as stated: the second application returns its argument, the output
\* of the first application, unchanged.
C4_Idempotent ==
    (pass = 2 /\ Done) => result = Ok(line)

\* C4 amended: the second application returns the output of the first
\* unchanged whenever that output holds no constructor expression.
C4_IdempotentWhenResolved ==
    (pass = 2 /\ Done /\ ~HasConstructor(line))
        => (result = Ok(line) /\ result = first_result)

\* the first application replaced an expression, the second had nothing
\* left to replace
C4_Witness ==
    /\ pass = 2
    /\ pc = "returned"
    /\ HasConstructor(first_line)
    /\ line # first_line
    /\ ~HasConstructor(line)
    /\ result = first_result

\* C5 as stated: with two independent expressions on the line, the first
\* identifier and its own parentheses go, its own payload stays, and the
\* rest of the line, the second expression included, is left as it was.
C5_OnlyFirstTransformed ==
    (pass = 1 /\ Done /\ TwoExpressions(line))
        => result = Ok(Before(line) \o OwnPayload(line) \o Rest(line))

\* C5 amended: with two independent expressions on the line, the first
\* identifier, its "(" and the LAST ")" of the line go; the text between
\* them, which holds the first ")" and the second identifier with its "(",
\* is put in as the replacement template of re.sub; the text before the
\* first identifier and after the last ")" is left as it was.
C5_FirstOpenToLastClose ==
    (pass = 1 /\ Done /\ TwoExpressions(line))
        => LET tpl == parse_template(Payload(line), 1,
                                     SubSeq(line, IdStart(line), LastClose(line)))
           IN  /\ result.ok = tpl.ok
               /\ result.ok
                    => result.val = Before(line) \o tpl.val \o After(line)
               /\ LastClose(line) > OwnClose(line)

\* ObjectId(..)..Date(..) lost the first "(" and the last ")"
C5_Witness ==
    /\ pass = 1
    /\ pc = "returned"
    /\ TwoExpressions(line)
    /\ result.val = Before(line) \o Payload(line) \o After(line)
    /\ HasConstructor(Rest(line))
    /\ ~HasConstructor(result.val)

\* C9: on a line, the text of the matched expression occurs exactly once,
\* at the leftmost match, so the replacement of all its occurrences
\* replaces exactly one; without a match nothing is replaced.
C9_OneSubstitution ==
    (IsLine(line) /\ pc \in {"searched", "returned", "raised"})
        => IF mongodb_object.found
           THEN /\ Occurrences(line, Expression(line, mongodb_object))
                      = {mongodb_object.start}
                /\ mongodb_object.start = IdStart(line)
           ELSE Done => result = Ok(line)

\* a line where the identifier of the match occurs again inside the payload
C9_Witness ==
    /\ IsLine(line)
    /\ pc = "returned"
    /\ mongodb_object.found
    /\ Cardinality(ConstructorStarts(line)) >= 2
    /\ Occurrences(line, Expression(line, mongodb_object)) = {mongodb_object.start}

----------------------------------------------------------------------------
(* Python values, as json.load builds them *)

None == [t |-> "None", v |-> <<>>]

PyStr(cs) == [t |-> "str", v |-> cs]

\* an int or a float, kept as its digits
PyNum(cs) == [t |-> "number", v |-> cs]

PyBool(cs) == [t |-> "bool", v |-> cs]

\* a dict, kept as the sequence of its <<key, value>> pairs in the order
\* they were set; a later pair with the same key overrides an earlier one
PyDict(pairs) == [t |-> "dict", v |-> pairs]

PyList(items) == [t |-> "list", v |-> items]

----------------------------------------------------------------------------
(* json.load: the decoder of the json package *)

At(s, i) == IF i >= 1 /\ i <= Len(s) THEN s[i] ELSE "end"

WHITESPACE == {" ", "\t", "\n", Chr(13)}

\* the first position from i on that holds no whitespace
SkipWS(s, i) ==
    LET stops == {k \in i..Len(s) : s[k] \notin WHITESPACE}
    IN  IF stops = {} THEN Len(s) + 1 ELSE Min(stops)

JOk(v, n) == [ok |-> TRUE, val |-> v, next |-> n]

JErr == [ok |-> FALSE, val |-> None, next |-> 0]

IsControl(c) == c \in {Chr(n) : n \in 0..31}

HexDigits == DIGITS \cup {"a","b","c","d","e","f","A","B","C","D","E","F"}

HexVal(c) ==
    CASE c \in DIGITS -> DigitVal(c)
      [] c \in {"a", "A"} -> 10 [] c \in {"b", "B"} -> 11
      [] c \in {"c", "C"} -> 12 [] c \in {"d", "D"} -> 13
      [] c \in {"e", "E"} -> 14 [] c \in {"f", "F"} -> 15

RECURSIVE HexOf(_)
HexOf(ds) ==
    IF ds = <<>> THEN 0
    ELSE HexOf(SubSeq(ds, 1, Len(ds) - 1)) * 16 + HexVal(ds[Len(ds)])

\* the escapes of a JSON string: \" \\ \/ \b \f \n \r \t
HasBackslash(c) == c \in {"\"", "\\", "/", "b", "f", "n", "r", "t"}

BACKSLASH(c) ==
    CASE c = "\"" -> "\"" [] c = "\\" -> "\\" [] c = "/" -> "/"
      [] c = "b" -> Chr(8) [] c = "f" -> Chr(12) [] c = "n" -> Chr(10)
      [] c = "r" -> Chr(13) [] c = "t" -> Chr(9)

\* py_scanstring, strict: the string whose opening quote is before i
\* (a surrogate pair of \u escapes is not joined)
RECURSIVE scanstring(_, _, _)
scanstring(s, i, acc) ==
    IF i > Len(s) THEN JErr
    ELSE IF s[i] = "\"" THEN JOk(PyStr(acc), i + 1)
    ELSE IF IsControl(s[i]) THEN JErr
    ELSE IF s[i] # "\\" THEN scanstring(s, i + 1, Append(acc, s[i]))
    ELSE IF i = Len(s) THEN JErr
    ELSE IF s[i + 1] = "u" THEN
        IF /\ i + 5 <= Len(s)
           /\ \A k \in (i + 2)..(i + 5) : s[k] \in HexDigits
        THEN scanstring(s, i + 6,
                        Append(acc, Chr(HexOf(SubSeq(s, i + 2, i + 5)))))
        ELSE JErr
    ELSE IF HasBackslash(s[i + 1])
         THEN scanstring(s, i + 2, Append(acc, BACKSLASH(s[i + 1])))
    ELSE JErr

\* NUMBER_RE: (-?(?:0|[1-9]\d*))(\.\d+)?([eE][-+]?\d+)? matched at i;
\* the position after the match, 0 if there is none
DigitsEnd(s, i) ==
    LET stops == {k \in i..Len(s) : s[k] \notin DIGITS}
    IN  IF stops = {} THEN Len(s) + 1 ELSE Min(stops)

NumberEnd(s, i) ==
    LET a == IF At(s, i) = "-" THEN i + 1 ELSE i
        b == IF At(s, a) = "0" THEN a + 1
             ELSE IF At(s, a) \in DIGITS THEN DigitsEnd(s, a)
             ELSE 0
        c == IF b # 0 /\ At(s, b) = "." /\ At(s, b + 1) \in DIGITS
             THEN DigitsEnd(s, b + 1) ELSE b
        e == IF c # 0 /\ At(s, c) \in {"e", "E"}
             THEN IF At(s, c + 1) \in {"+", "-"} THEN c + 2 ELSE c + 1
             ELSE 0
        d == IF e # 0 /\ At(s, e) \in DIGITS THEN DigitsEnd(s, e) ELSE c
    IN  d

StartsWith(s, i, w) == OccursAt(s, i, w)

RECURSIVE scan_once(_, _)
RECURSIVE JSONMembers(_, _, _)
RECURSIVE JSONItems(_, _, _)

\* JSONObject: the "{" is before i
JSONObject(s, i) ==
    LET k == SkipWS(s, i)
    IN  IF At(s, k) = "}" THEN JOk(PyDict(<<>>), k + 1)
        ELSE IF At(s, k) # "\"" THEN JErr
        ELSE JSONMembers(s, k + 1, <<>>)

\* the loop of JSONObject: the opening quote of a key is before i
JSONMembers(s, i, acc) ==
    LET key == scanstring(s, i, <<>>)
    IN  IF ~key.ok THEN JErr
        ELSE
        LET c == SkipWS(s, key.next)
        IN  IF At(s, c) # ":" THEN JErr
            ELSE
            LET v == scan_once(s, SkipWS(s, c + 1))
            IN  IF ~v.ok THEN JErr
                ELSE
                LET e == SkipWS(s, v.next)
                    pairs == Append(acc, <<key.val.v, v.val>>)
                IN  IF At(s, e) = "}" THEN JOk(PyDict(pairs), e + 1)
                    ELSE IF At(s, e) # "," THEN JErr
                    ELSE LET q == SkipWS(s, e + 1)
                         IN  IF At(s, q) # "\"" THEN JErr
                             ELSE JSONMembers(s, q + 1, pairs)

\* JSONArray: the "[" is before i
JSONArray(s, i) ==
    LET k == SkipWS(s, i)
    IN  IF At(s, k) = "]" THEN JOk(PyList(<<>>), k + 1)
        ELSE JSONItems(s, k, <<>>)

\* the loop of JSONArray: a value is expected at i
JSONItems(s, i, acc) ==
    LET v == scan_once(s, i)
    IN  IF ~v.ok THEN JErr
        ELSE
        LET e == SkipWS(s, v.next)
            items == Append(acc, v.val)
        IN  IF At(s, e) = "]" THEN JOk(PyList(items), e + 1)
            ELSE IF At(s, e) # "," THEN JErr
            ELSE JSONItems(s, SkipWS(s, e + 1), items)

scan_once(s, i) ==
    LET c == At(s, i)
    IN  IF c = "\"" THEN scanstring(s, i + 1, <<>>)
        ELSE IF c = "{" THEN JSONObject(s, i + 1)
        ELSE IF c = "[" THEN JSONArray(s, i + 1)
        ELSE IF StartsWith(s, i, <<"n","u","l","l">>) THEN JOk(None, i + 4)
        ELSE IF StartsWith(s, i, <<"t","r","u","e">>)
             THEN JOk(PyBool(<<"t","r","u","e">>), i + 4)
        ELSE IF StartsWith(s, i, <<"f","a","l","s","e">>)
             THEN JOk(PyBool(<<"f","a","l","s","e">>), i + 5)
        ELSE IF NumberEnd(s, i) # 0
             THEN JOk(PyNum(SubSeq(s, i, NumberEnd(s, i) - 1)), NumberEnd(s, i))
        ELSE IF StartsWith(s, i, <<"N","a","N">>)
             THEN JOk(PyNum(<<"N","a","N">>), i + 3)
        ELSE IF StartsWith(s, i, <<"I","n","f","i","n","i","t","y">>)
             THEN JOk(PyNum(SubSeq(s, i, i + 7)), i + 8)
        ELSE IF StartsWith(s, i, <<"-","I","n","f","i","n","i","t","y">>)
             THEN JOk(PyNum(SubSeq(s, i, i + 8)), i + 9)
        ELSE JErr

\* JSONDecoder.decode: one value, whitespace around it, nothing after it
json_loads(s) ==
    LET v == scan_once(s, SkipWS(s, 1))
    IN  IF ~v.ok THEN Raise("JSONDecodeError")
        ELSE IF SkipWS(s, v.next) # Len(s) + 1 THEN Raise("JSONDecodeError")
        ELSE Ok(v.val)

----------------------------------------------------------------------------
(* Files opened in text mode *)

\* reading translates "\r\n" and "\r" to "\n"
ReadText(t) ==
    LET translated ==
            [k \in 1..Len(t) |->
                IF t[k] = Chr(13) THEN "\n"
                ELSE IF t[k] = "\n" /\ k > 1 /\ t[k - 1] = Chr(13) THEN "dropped"
                ELSE t[k]]
        Kept(c) == c # "dropped"
    IN  SelectSeq(translated, Kept)

\* the lines of a text, each with its terminator
RECURSIVE SplitLines(_)
SplitLines(t) ==
    LET ends == {k \in 1..Len(t) : t[k] = "\n"}
    IN  IF t = <<>> THEN <<>>
        ELSE IF ends = {} THEN <<t>>
        ELSE <<SubSeq(t, 1, Min(ends))>>
                 \o SplitLines(SubSeq(t, Min(ends) + 1, Len(t)))

readlines(t) == SplitLines(ReadText(t))

json_load(t) == json_loads(ReadText(t))

----------------------------------------------------------------------------
(* The operations of read_udpated_json_file on Python values *)

\* the keys the function looks up
\* member
K_member ==
    <<"m","e","m","b","e","r">>

\* customer_id
K_customer_id ==
    <<"c","u","s","t","o","m","e","r","_","i","d">>

\* rewards
K_rewards ==
    <<"r","e","w","a","r","d","s">>

\* amount
K_amount ==
    <<"a","m","o","u","n","t">>

\* currency
K_currency ==
    <<"c","u","r","r","e","n","c","y">>

\* rewards_results
K_rewards_results ==
    <<"r","e","w","a","r","d","s","_","r","e","s","u","l","t","s">>

\* grant_time
K_grant_time ==
    <<"g","r","a","n","t","_","t","i","m","e">>

\* the value of the last pair with this key, None if there is none
Lookup(pairs, key) ==
    LET hits == {k \in 1..Len(pairs) : pairs[k][1] = key}
    IN  IF hits = {} THEN None ELSE pairs[Max(hits)][2]

\* as method_get, had the call been obj.get(key, {})
method_get_or_empty(obj, key) ==
    IF obj.t # "dict" THEN Raise("AttributeError")
    ELSE IF \E k \in 1..Len(obj.v) : obj.v[k][1] = key
         THEN Ok(Lookup(obj.v, key))
    ELSE Ok(PyDict(<<>>))

\* as method_get, had the call been obj[key]
method_subscript(obj, key) ==
    IF obj.t # "dict" THEN Raise("TypeError")
    ELSE IF \E k \in 1..Len(obj.v) : obj.v[k][1] = key
         THEN Ok(Lookup(obj.v, key))
    ELSE Raise("KeyError")

\* obj.get(key): only a dict has the method
method_get(obj, key) ==
    IF obj.t = "dict" THEN Ok(Lookup(obj.v, key)) ELSE Raise("AttributeError")

\* obj[0]
subscript_0(obj) ==
    CASE obj.t = "list" ->
            IF obj.v = <<>> THEN Raise("IndexError") ELSE Ok(obj.v[1])
      [] obj.t = "str" ->
            IF obj.v = <<>> THEN Raise("IndexError")
            ELSE Ok(PyStr(<<obj.v[1]>>))
      [] obj.t = "dict" -> Raise("KeyError")
      [] OTHER -> Raise("TypeError")

\* result.get("member").get("customer_id")
customer_id(res) ==
    LET a == method_get(res, K_member)
    IN  IF a.ok THEN method_get(a.val, K_customer_id) ELSE a

\* result.get("rewards").get("amount")
rewards_amount(res) ==
    LET a == method_get(res, K_rewards)
    IN  IF a.ok THEN method_get(a.val, K_amount) ELSE a

\* result.get("rewards").get("currency")
rewards_currency(res) ==
    LET a == method_get(res, K_rewards)
    IN  IF a.ok THEN method_get(a.val, K_currency) ELSE a

\* result.get("rewards_results")[0].get("grant_time")
grant_time(res) ==
    LET a == method_get(res, K_rewards_results)
        b == IF a.ok THEN subscript_0(a.val) ELSE a
    IN  IF b.ok THEN method_get(b.val, K_grant_time) ELSE b

\* pd.DataFrame.from_dict(row, orient='index') of a row of scalars: one
\* frame row per key, in the order of the keys, and a single column
from_dict(r) ==
    [index |-> [k \in 1..Len(r) |-> r[k][1]],
     column_0 |-> [k \in 1..Len(r) |-> r[k][2]]]

NoData == [index |-> <<>>, column_0 |-> <<>>]

----------------------------------------------------------------------------
(* Export files *)

\* "member": {"customer_id": ObjectId("c1")}
E_member_ObjectId ==
    <<"\"","m","e","m","b","e","r","\"",":"," ","{","\"","c","u","s","t",
      "o","m","e","r","_","i","d","\"",":"," ","O","b","j","e","c","t","I",
      "d","(","\"","c","1","\"",")","}">>

\* "member": {"customer_id": "c1"}
E_member_plain ==
    <<"\"","m","e","m","b","e","r","\"",":"," ","{","\"","c","u","s","t",
      "o","m","e","r","_","i","d","\"",":"," ","\"","c","1","\"","}">>

\* "member": {}
E_member_empty ==
    <<"\"","m","e","m","b","e","r","\"",":"," ","{","}">>

\* "member": null
E_member_null ==
    <<"\"","m","e","m","b","e","r","\"",":"," ","n","u","l","l">>

\* "member": {"customer_id": ObjectId("c\n1")}
E_member_newline ==
    <<"\"","m","e","m","b","e","r","\"",":"," ","{","\"","c","u","s","t",
      "o","m","e","r","_","i","d","\"",":"," ","O","b","j","e","c","t","I",
      "d","(","\"","c","\\","n","1","\"",")","}">>

\* "member": {"customer_id": ObjectId("c\d")}
E_member_badescape ==
    <<"\"","m","e","m","b","e","r","\"",":"," ","{","\"","c","u","s","t",
      "o","m","e","r","_","i","d","\"",":"," ","O","b","j","e","c","t","I",
      "d","(","\"","c","\\","d","\"",")","}">>

\* "rewards": {"amount": Decimal128("10.5"), "currency": "USD"}
E_rewards_Decimal128 ==
    <<"\"","r","e","w","a","r","d","s","\"",":"," ","{","\"","a","m","o",
      "u","n","t","\"",":"," ","D","e","c","i","m","a","l","1","2","8","(",
      "\"","1","0",".","5","\"",")",","," ","\"","c","u","r","r","e","n",
      "c","y","\"",":"," ","\"","U","S","D","\"","}">>

\* "rewards": {"amount": NumberDecimal("10.5"), "currency": "USD"}
E_rewards_NumberDecimal ==
    <<"\"","r","e","w","a","r","d","s","\"",":"," ","{","\"","a","m","o",
      "u","n","t","\"",":"," ","N","u","m","b","e","r","D","e","c","i","m",
      "a","l","(","\"","1","0",".","5","\"",")",","," ","\"","c","u","r",
      "r","e","n","c","y","\"",":"," ","\"","U","S","D","\"","}">>

\* "rewards": {"amount": "10.5"}
E_rewards_no_currency ==
    <<"\"","r","e","w","a","r","d","s","\"",":"," ","{","\"","a","m","o",
      "u","n","t","\"",":"," ","\"","1","0",".","5","\"","}">>

\* "rewards": {"currency": "USD"}
E_rewards_no_amount ==
    <<"\"","r","e","w","a","r","d","s","\"",":"," ","{","\"","c","u","r",
      "r","e","n","c","y","\"",":"," ","\"","U","S","D","\"","}">>

\* "rewards": {"amount": 10.5, "currency": "USD"}
E_rewards_number ==
    <<"\"","r","e","w","a","r","d","s","\"",":"," ","{","\"","a","m","o",
      "u","n","t","\"",":"," ","1","0",".","5",","," ","\"","c","u","r","r",
      "e","n","c","y","\"",":"," ","\"","U","S","D","\"","}">>

\* "rewards_results": [{"grant_time": Date("2021-01-01")}]
E_results_Date ==
    <<"\"","r","e","w","a","r","d","s","_","r","e","s","u","l","t","s","\"",
      ":"," ","[","{","\"","g","r","a","n","t","_","t","i","m","e","\"",":",
      " ","D","a","t","e","(","\"","2","0","2","1","-","0","1","-","0","1",
      "\"",")","}","]">>

\* "rewards_results": []
E_results_empty ==
    <<"\"","r","e","w","a","r","d","s","_","r","e","s","u","l","t","s","\"",
      ":"," ","[","]">>

\* "rewards_results": [{}]
E_results_no_grant_time ==
    <<"\"","r","e","w","a","r","d","s","_","r","e","s","u","l","t","s","\"",
      ":"," ","[","{","}","]">>

\* c1
V_c1 ==
    <<"c","1">>

\* 10.5
V_10_5 ==
    <<"1","0",".","5">>

\* USD
V_USD ==
    <<"U","S","D">>

\* 2021-01-01
V_2021 ==
    <<"2","0","2","1","-","0","1","-","0","1">>

MemberEntries ==
    { E_member_ObjectId, E_member_plain, E_member_empty, E_member_null,
      E_member_newline, E_member_badescape }

RewardsEntries ==
    { E_rewards_Decimal128, E_rewards_NumberDecimal, E_rewards_no_currency,
      E_rewards_no_amount, E_rewards_number }

ResultsEntries ==
    { E_results_Date, E_results_empty, E_results_no_grant_time }

\* no entry, or one of the entries of S
Optional(S) == {<<>>} \cup {<<e>> : e \in S}

RECURSIVE Join(_)
Join(entries) ==
    IF entries = <<>> THEN <<>>
    ELSE IF Len(entries) = 1 THEN entries[1] \o <<"\n">>
    ELSE entries[1] \o <<",", "\n">> \o Join(Tail(entries))

\* an export with one entry per line
Document(entries) == <<"{", "\n">> \o Join(entries) \o <<"}", "\n">>

Documents ==
    { Document(m \o r \o g) :
        m \in Optional(MemberEntries),
        r \in Optional(RewardsEntries),
        g \in Optional(ResultsEntries) }

OldContents == { <<>>, <<"{", "}", "\n">> }

NoExc == [kind |-> "none", at |-> "none"]

----------------------------------------------------------------------------
(* update_json_file, then read_udpated_json_file on its output *)

InitFile ==
    /\ src_text \in Documents
    /\ out_before \in OldContents
    /\ out_text = out_before
    /\ opened = FALSE
    /\ lines = <<>>
    /\ lines_fixed = <<>>
    /\ written = 0
    /\ exc = NoExc
    /\ json_result = None
    /\ row = <<>>
    /\ data = NoData
    /\ pc = "open_src"
    /\ line = <<>>
    /\ first_line = <<>>
    /\ mongodb_object = NoMatch
    /\ result = NotCalled
    /\ first_result = NotCalled
    /\ pass = 0

\* the first i characters of t
Prefix(t, i) == SubSeq(t, 1, i)

\* as AfterMap, had the output been opened before the lines are mapped
AfterMap_Early(fixed, ls) == "open_dst"

\* where the function goes after a line is mapped
AfterMap(fixed, ls) == IF Len(fixed) = Len(ls) THEN "open_dst" ELSE "map"

\* with open(path) as fp:
OpenSrc ==
    /\ pc = "open_src"
    /\ pc' = "readlines"
    /\ UNCHANGED <<lineVars, fileVars>>

\* open(path) raises
OpenSrcFail ==
    /\ pc = "open_src"
    /\ pc' = "failed"
    /\ exc' = [kind |-> "OSError", at |-> "open_src"]
    /\ UNCHANGED <<lineVars, src_text, out_text, out_before, opened, lines,
                   lines_fixed, written, json_result, row, data>>

\* lines = fp.readlines()
ReadLines ==
    /\ pc = "readlines"
    /\ lines' = readlines(src_text)
    /\ pc' = AfterMap(lines_fixed, lines')
    /\ UNCHANGED <<lineVars, src_text, out_text, out_before, opened,
                   lines_fixed, written, exc, json_result, row, data>>

\* fp.readlines() raises
ReadLinesFail ==
    /\ pc = "readlines"
    /\ pc' = "failed"
    /\ exc' = [kind |-> "OSError", at |-> "readlines"]
    /\ UNCHANGED <<lineVars, src_text, out_text, out_before, opened, lines,
                   lines_fixed, written, json_result, row, data>>

\* list(map(fix_mongodb_objects, lines)): the next line
FixLine ==
    /\ pc = "map"
    /\ LET r == fix_mongodb_objects(lines[Len(lines_fixed) + 1])
       IN  IF r.ok
           THEN /\ lines_fixed' = Append(lines_fixed, r.val)
                /\ pc' = AfterMap(lines_fixed', lines)
                /\ exc' = exc
           ELSE /\ lines_fixed' = lines_fixed
                /\ pc' = "failed"
                /\ exc' = [kind |-> r.err, at |-> "map"]
    /\ UNCHANGED <<lineVars, src_text, out_text, out_before, opened, lines,
                   written, json_result, row, data>>

\* with open(output_path, "w") as fp_write: the file is truncated
OpenDst ==
    /\ pc = "open_dst"
    /\ opened' = TRUE
    /\ out_text' = <<>>
    /\ pc' = "write"
    /\ UNCHANGED <<lineVars, src_text, out_before, lines, lines_fixed,
                   written, exc, json_result, row, data>>

\* open(output_path, "w") raises
OpenDstFail ==
    /\ pc = "open_dst"
    /\ pc' = "failed"
    /\ exc' = [kind |-> "OSError", at |-> "open_dst"]
    /\ UNCHANGED <<lineVars, src_text, out_text, out_before, opened, lines,
                   lines_fixed, written, json_result, row, data>>

\* fp_write.write(line)
WriteLine ==
    /\ pc = "write"
    /\ written < Len(lines_fixed)
    /\ out_text' = out_text \o lines_fixed[written + 1]
    /\ written' = written + 1
    /\ UNCHANGED <<pc, lineVars, src_text, out_before, opened, lines,
                   lines_fixed, exc, json_result, row, data>>

\* fp_write.write(line) raises: of the text handed to the file so far, this
\* line included, only a part has reached it
WriteFail ==
    /\ pc = "write"
    /\ written < Len(lines_fixed)
    /\ \E n \in 0..(Len(out_text) + Len(lines_fixed[written + 1]) - 1) :
          out_text' = Prefix(out_text \o lines_fixed[written + 1], n)
    /\ pc' = "failed"
    /\ exc' = [kind |-> "OSError", at |-> "write"]
    /\ UNCHANGED <<lineVars, src_text, out_before, opened, lines,
                   lines_fixed, written, json_result, row, data>>

\* the end of both with blocks: update_json_file returns
CloseFiles ==
    /\ pc = "write"
    /\ written = Len(lines_fixed)
    /\ pc' = "converted"
    /\ UNCHANGED <<lineVars, fileVars>>

\* result = json.load(fp_fixed)
Load ==
    /\ pc = "converted"
    /\ LET r == json_load(out_text)
       IN  IF r.ok
           THEN /\ json_result' = r.val
                /\ pc' = "customer_id"
                /\ exc' = exc
           ELSE /\ json_result' = json_result
                /\ pc' = "failed"
                /\ exc' = [kind |-> r.err, at |-> "load"]
    /\ UNCHANGED <<lineVars, src_text, out_text, out_before, opened, lines,
                   lines_fixed, written, row, data>>

\* One entry of the row: the value is stored under the label, or its
\* exception leaves the function and the entries evaluated so far are lost.
Entry(at, label, r, next) ==
    /\ pc = at
    /\ IF r.ok
       THEN /\ row' = Append(row, <<label, r.val>>)
            /\ pc' = next
            /\ exc' = exc
       ELSE /\ row' = <<>>
            /\ pc' = "failed"
            /\ exc' = [kind |-> r.err, at |-> at]
    /\ UNCHANGED <<lineVars, src_text, out_text, out_before, opened, lines,
                   lines_fixed, written, json_result, data>>

EntryCustomerId ==
    Entry("customer_id", "customer_id", customer_id(json_result),
          "rewards_amount")

EntryRewardsAmount ==
    Entry("rewards_amount", "rewards_amount", rewards_amount(json_result),
          "rewards_currency")

EntryRewardsCurrency ==
    Entry("rewards_currency", "rewards_currency",
          rewards_currency(json_result), "grant_time")

EntryGrantTime ==
    Entry("grant_time", "grant_time", grant_time(json_result), "from_dict")

\* data = pd.DataFrame.from_dict(row, orient='index'); return data
ReturnData ==
    /\ pc = "from_dict"
    /\ data' = from_dict(row)
    /\ pc' = "loaded"
    /\ UNCHANGED <<lineVars, src_text, out_text, out_before, opened, lines,
                   lines_fixed, written, exc, json_result, row>>

NextFile ==
    \/ OpenSrc \/ OpenSrcFail \/ ReadLines \/ ReadLinesFail \/ FixLine
    \/ OpenDst \/ OpenDstFail \/ WriteLine \/ WriteFail \/ CloseFiles
    \/ Load \/ EntryCustomerId \/ EntryRewardsAmount \/ EntryRewardsCurrency
    \/ EntryGrantTime \/ ReturnData

SpecFile == InitFile /\ [][NextFile]_vars

----------------------------------------------------------------------------
(* The vocabulary of the properties of the two file functions *)

EntryStages == {"customer_id", "rewards_amount", "rewards_currency", "grant_time"}

\* the failures of the file system, as opposed to those of the data
IOStages == {"open_src", "readlines", "open_dst", "write"}

HasKey(obj, key) ==
    /\ obj.t = "dict"
    /\ \E k \in 1..Len(obj.v) : obj.v[k][1] = key

\* the value under key in a dict that has the key
ValueOf(obj, key) == obj.v[Max({k \in 1..Len(obj.v) : obj.v[k][1] = key})][2]

\* 'member', 'rewards' or 'rewards_results' is missing, or the array is empty
MemberMissing(res) == res.t = "dict" /\ ~HasKey(res, K_member)

RewardsMissing(res) == res.t = "dict" /\ ~HasKey(res, K_rewards)

ResultsMissingOrEmpty(res) ==
    /\ res.t = "dict"
    /\ \/ ~HasKey(res, K_rewards_results)
       \/ ValueOf(res, K_rewards_results) = PyList(<<>>)

\* the object a field is read from, when the document has one: the value
\* of 'member', of 'rewards', the first element of 'rewards_results'
HasParent(res, stage) ==
    CASE stage = "customer_id" ->
            HasKey(res, K_member) /\ ValueOf(res, K_member).t = "dict"
      [] stage \in {"rewards_amount", "rewards_currency"} ->
            HasKey(res, K_rewards) /\ ValueOf(res, K_rewards).t = "dict"
      [] stage = "grant_time" ->
            /\ HasKey(res, K_rewards_results)
            /\ ValueOf(res, K_rewards_results).t = "list"
            /\ ValueOf(res, K_rewards_results).v # <<>>
            /\ ValueOf(res, K_rewards_results).v[1].t = "dict"

Parent(res, stage) ==
    CASE stage = "customer_id" -> ValueOf(res, K_member)
      [] stage \in {"rewards_amount", "rewards_currency"} -> ValueOf(res, K_rewards)
      [] stage = "grant_time" -> ValueOf(res, K_rewards_results).v[1]

LeafKey(stage) ==
    CASE stage = "customer_id" -> K_customer_id
      [] stage = "rewards_amount" -> K_amount
      [] stage = "rewards_currency" -> K_currency
      [] stage = "grant_time" -> K_grant_time

\* the field is absent although the object it is read from is there
LeafAbsent(res, stage) ==
    HasParent(res, stage) /\ ~HasKey(Parent(res, stage), LeafKey(stage))

\* the value the returned frame holds under a label
Cell(frame, label) ==
    frame.column_0[CHOOSE k \in 1..Len(frame.index) : frame.index[k] = label]

IsPrefixOf(a, b) == Len(a) <= Len(b) /\ a = SubSeq(b, 1, Len(a))

\* the document of the end-to-end example, one entry per line
ExampleDocument ==
    Document(<<E_member_ObjectId, E_rewards_Decimal128, E_results_Date>>)

ExampleRow ==
    [index |-> <<"customer_id", "rewards_amount", "rewards_currency", "grant_time">>,
     column_0 |-> <<PyStr(V_c1), PyStr(V_10_5), PyStr(V_USD), PyStr(V_2021)>>]

----------------------------------------------------------------------------
(* Properties of update_json_file and read_udpated_json_file *)

\* C3: when update_json_file completes, the output file has as many lines
\* as the input file, and line i of the output is the normalization of
\* line i of the input.
C3_LineCount ==
    pc = "converted"
        => /\ Len(readlines(out_text)) = Len(readlines(src_text))
           /\ \A i \in 1..Len(readlines(src_text)) :
                Ok(readlines(out_text)[i])
                    = fix_mongodb_objects(readlines(src_text)[i])

\* C6: for the example document, when the file system does not fail, the
\* conversion and the load succeed and yield the row c1, 10.5, USD,
\* 2021-01-01.
C6_EndToEnd ==
    (src_text = ExampleDocument /\ pc \in {"loaded", "failed"}
        /\ exc.at \notin IOStages)
        => (pc = "loaded" /\ data = ExampleRow)

\* C7: a document without 'member', 'rewards' or 'rewards_results', or
\* with an empty 'rewards_results', never gets past the entry that needs
\* the missing value: the function fails there with an exception and
\* returns no row.
C7_MissingIntermediateFails ==
    /\ pc \in {"rewards_amount", "rewards_currency", "grant_time", "from_dict", "loaded"}
          => ~MemberMissing(json_result)
    /\ pc \in {"grant_time", "from_dict", "loaded"}
          => ~RewardsMissing(json_result)
    /\ pc \in {"from_dict", "loaded"}
          => ~ResultsMissingOrEmpty(json_result)
    /\ (pc = "failed" /\ exc.at \in EntryStages)
          => /\ data = NoData
             /\ row = <<>>
             /\ exc.kind \in {"AttributeError", "TypeError", "IndexError", "KeyError"}
    /\ data # NoData => pc = "loaded"

\* the function failed on a document with a missing or empty intermediate
C7_Witness ==
    /\ pc = "failed"
    /\ exc.at \in EntryStages
    /\ \/ MemberMissing(json_result)
       \/ RewardsMissing(json_result)
       \/ ResultsMissingOrEmpty(json_result)
    /\ data = NoData

\* C8 as stated: a document in which one of the four fields is absent,
\* its parent object being present, never yields a row.
C8_LeafAbsentFails ==
    pc = "loaded" => \A f \in EntryStages : ~LeafAbsent(json_result, f)

\* C8 amended: a field that is absent while the object it is read from is
\* present raises nothing: the row is returned with None for that field
\* (and the field's value when it is there).  An exception leaves the
\* function at an entry only when the object the field is read from is
\* missing: 'member' or 'rewards' is not an object, or 'rewards_results'
\* is not a non-empty array whose first element is an object.
C8_LeafAbsentGivesNone ==
    /\ pc = "loaded"
          => \A f \in EntryStages :
                /\ HasParent(json_result, f)
                /\ Cell(data, f) = IF LeafAbsent(json_result, f) THEN None
                                   ELSE ValueOf(Parent(json_result, f), LeafKey(f))
    /\ (pc = "failed" /\ exc.at \in EntryStages)
          => ~HasParent(json_result, exc.at)

\* a row was returned with None for an absent field
C8_Witness ==
    /\ pc = "loaded"
    /\ \E f \in EntryStages :
          LeafAbsent(json_result, f) /\ Cell(data, f) = None

\* C10: the destination is opened, and truncated, only after every line
\* of the source has been read and normalized; when reading or normalizing
\* fails the destination is never opened and keeps its previous content;
\* when a write fails the destination holds a prefix of the normalized
\* lines, in order.
C10_OpenAfterMap ==
    /\ opened
          => /\ lines = readlines(src_text)
             /\ Len(lines_fixed) = Len(lines)
             /\ \A i \in 1..Len(lines) :
                   Ok(lines_fixed[i]) = fix_mongodb_objects(lines[i])
    /\ ~opened => out_text = out_before
    /\ (pc = "failed" /\ exc.at \in {"open_src", "readlines", "map"})
          => (~opened /\ out_text = out_before)
    /\ (pc = "failed" /\ exc.at = "write")
          => IsPrefixOf(out_text, Concat(lines_fixed))

\* a write failed partway: the old content is gone and a part of the new
\* content is there
C10_Witness ==
    /\ pc = "failed"
    /\ exc.at = "write"
    /\ out_before # <<>>
    /\ out_text # <<>>
    /\ Len(out_text) < Len(Concat(lines_fixed))
    /\ IsPrefixOf(out_text, Concat(lines_fixed))

====
